---- MODULE Spec2Model ----
(***************************************************************************)
(* A model of the DroneMobile client: the session token, the credential    *)
(* exchange (login / create), the paginated vehicle lister with its        *)
(* Promise.all fan-out, the command dispatcher with its wrappers, and the  *)
(* derived queries status and location.                                    *)
(*                                                                         *)
(* The identity provider, the vehicle list endpoint and the command        *)
(* endpoint are the environment: each answer is a nondeterministic choice. *)
(* One login() and one API call (vehicles, status, a command) can be in    *)
(* flight at the same time; every await of the code is a separate step.    *)
(***************************************************************************)
EXTENDS Integers, Sequences, FiniteSets, TLC

VARIABLES
    config,       \* this.config: the credentials the instance was built with
    accessToken,  \* this.sessionInfo.accessToken
    account,      \* the vehicles the server holds for the account
    createPc,     \* position of DroneMobile.create(): none, login, returned, failed
    createError,  \* message create() failed with
    loginPc,      \* position of login(): idle, exchange (awaiting getSessionToken)
    exchange,     \* the identity provider's answer to the last credential exchange
    pc,           \* position of the API call: idle, first, fanout, post, done
    op,           \* the API call: [name, vehicleId, command, opts]
    tok,          \* the accessToken the call read from sessionInfo when it started
    gets,         \* list requests (GET) issued by the call, in the order issued
    arrival,      \* indexes into gets, in the order the responses arrived
    posts,        \* command requests (POST) issued by the call
    result        \* what the call returned or threw: [kind, value]

vars == <<config, accessToken, account, createPc, createError, loginPc,
          exchange, pc, op, tok, gets, arrival, posts, result>>

loginVars == <<createPc, createError, loginPc, exchange>>
callVars  == <<pc, op, tok, gets, arrival, posts, result>>

-----------------------------------------------------------------------------
(* Bounds of the model and constants of the program *)

MaxVehicles == 3      \* small accounts hold 0..MaxVehicles vehicles
BigVehicles == 201    \* one account larger than two default pages
MaxLimit == 2         \* limits a caller passes: 1..MaxLimit
MaxOffset == 1        \* offsets a caller passes: 0..MaxOffset
MaxPages == 3         \* calls that would need more page requests are left out

DefaultLimit == 100   \* limit = 100
DefaultOffset == 0    \* offset = 0
HttpOk == 200         \* response.statusCode !== 200

Null == "NULL"        \* JavaScript null / undefined
InFlight == 0         \* statusCode of a request not yet answered

DeviceKeys == {"A", "B"}
Tokens == {"t1", "t2"}
Statuses == {200, 204, 404, 500}
CommandBodies == {"ack", "lat-lng"}
Credentials == {"good", "bad"}

Is2xx(s) == s >= 200 /\ s < 300

\* A vehicle record: vid tells two records with the same device key apart.
Vehicle(i, k) == [vid |-> i, device_key |-> k]

\* Small accounts: every record with device key "A" (no "B" in the account), or
\* "A" and "B" alternating (the same key on several records).
KeyPatterns == {"same", "alternating"}
KeyAt(p, i) == IF p = "alternating" /\ i % 2 = 0 THEN "B" ELSE "A"

SmallAccounts ==
    { [i \in 1..n |-> Vehicle(i, KeyAt(p, i))] :
        n \in 0..MaxVehicles, p \in KeyPatterns }

\* device key "A" up to the default page size, "B" after it
BigAccount ==
    [i \in 1..BigVehicles |-> Vehicle(i, IF i > DefaultLimit THEN "B" ELSE "A")]

Accounts == SmallAccounts \cup {BigAccount}

-----------------------------------------------------------------------------
(* Values *)

Pending == [kind |-> "pending", value |-> Null]
Value(k, v) == [kind |-> k, value |-> v]
Throw(msg) == [kind |-> "error", value |-> msg]

\* !accessToken, !idToken
Falsy(t) == t = Null \/ t = ""

NoOpts == <<>>
NoOp == [name |-> "none", vehicleId |-> Null, command |-> Null, opts |-> NoOpts]

-----------------------------------------------------------------------------
(* Credential exchange: getSessionToken, login, create *)

\* What client.send(command) can do: reject, or resolve with or without IdToken.
ProviderAnswers(cfg) ==
    IF cfg = "good"
    THEN { [kind |-> "resolve", IdToken |-> t] : t \in Tokens \cup {Null, ""} }
         \cup { [kind |-> "reject", message |-> "Network error"] }
    ELSE { [kind |-> "reject", message |-> "Incorrect username or password."],
           [kind |-> "reject", message |-> "Network error"] }

\* getSessionToken without the check of idToken
getSessionTokenUnchecked(answer) ==
    IF answer.kind = "reject"
    THEN Throw("Authentication failed: " \o answer.message)
    ELSE Value("string", answer.IdToken)

\* getSessionToken: the token, or the error thrown. The throw inside the try
\* block is caught by the catch block and wrapped a second time.
getSessionToken(answer) ==
    IF answer.kind = "reject"
    THEN Throw("Authentication failed: " \o answer.message)
    ELSE IF Falsy(answer.IdToken)
         THEN Throw("Authentication failed: "
                    \o "Authentication failed: IdToken is missing")
         ELSE Value("string", answer.IdToken)

\* The instance may be used by a caller: create() returned it, or it was
\* built without create() (the state the constructor leaves).
Usable == createPc \in {"none", "returned"}

Quiescent == loginPc = "idle" /\ pc = "idle"

\* create(config): new DroneMobile(config), then await instance.login()
Create(cfg) ==
    /\ Quiescent
    /\ config' = cfg
    /\ accessToken' = Null
    /\ createPc' = "login"
    /\ createError' = Null
    /\ loginPc' = "exchange"
    /\ exchange' = [kind |-> "none"]
    /\ pc' = "idle"
    /\ op' = NoOp
    /\ tok' = Null
    /\ gets' = <<>>
    /\ arrival' = <<>>
    /\ posts' = <<>>
    /\ result' = Pending
    /\ UNCHANGED account

\* login() resetting the token before the exchange
LoginInvalidatesFirst ==
    /\ Usable
    /\ loginPc = "idle"
    /\ loginPc' = "exchange"
    /\ exchange' = [kind |-> "none"]
    /\ accessToken' = Null
    /\ UNCHANGED <<config, account, createPc, createError>>
    /\ UNCHANGED callVars

\* login(): up to the await of getSessionToken
Login ==
    /\ Usable
    /\ loginPc = "idle"
    /\ loginPc' = "exchange"
    /\ exchange' = [kind |-> "none"]
    /\ UNCHANGED <<config, accessToken, account, createPc, createError>>
    /\ UNCHANGED callVars

\* The assignment of login() after the await
StoreToken(old, got) == got

\* The identity provider answers; login() and, if it is awaiting it, create() resume.
LoginResumes(answer) ==
    /\ loginPc = "exchange"
    /\ answer \in ProviderAnswers(config)
    /\ LET r == getSessionToken(answer) IN
        /\ exchange' = answer
        /\ loginPc' = "idle"
        /\ IF r.kind = "error"
           THEN /\ UNCHANGED accessToken
                /\ IF createPc = "login"
                   THEN createPc' = "failed" /\ createError' = r.value
                   ELSE UNCHANGED <<createPc, createError>>
           ELSE /\ accessToken' = StoreToken(accessToken, r.value)
                /\ createPc' = IF createPc = "login" THEN "returned" ELSE createPc
                /\ UNCHANGED createError
    /\ UNCHANGED <<config, account>>
    /\ UNCHANGED callVars

-----------------------------------------------------------------------------
(* Command dispatcher *)

Wrappers == {"start", "stop", "lock", "unlock", "trunk", "aux1", "aux2"}

\* Keyword with the keywords of lock and unlock exchanged
KeywordSwapped(name) ==
    CASE name = "start"    -> "remote_start"
      [] name = "stop"     -> "remote_stop"
      [] name = "lock"     -> "disarm"
      [] name = "unlock"   -> "arm"
      [] name = "trunk"    -> "trunk"
      [] name = "aux1"     -> "remote_aux1"
      [] name = "aux2"     -> "remote_aux2"
      [] name = "location" -> "location"

\* The keyword each wrapper passes to sendCommand
Keyword(name) ==
    CASE name = "start"    -> "remote_start"
      [] name = "stop"     -> "remote_stop"
      [] name = "lock"     -> "arm"
      [] name = "unlock"   -> "disarm"
      [] name = "trunk"    -> "trunk"
      [] name = "aux1"     -> "remote_aux1"
      [] name = "aux2"     -> "remote_aux2"
      [] name = "location" -> "location"

\* A guard that tests for the empty string only
NotLoggedInEmptyOnly(token) == token = ""

\* The guard of vehicles() and sendCommand(): if (!accessToken)
NotLoggedIn(token) == Falsy(token)

\* apiRequest({path, body: {deviceKey, command}, accessToken}): the POST sent
ApiRequest(vehicleId, command, token) ==
    [path |-> "/api/iot/send-command", deviceKey |-> vehicleId,
     command |-> command, xDroneApi |-> token,
     statusCode |-> InFlight, result |-> Null]

\* A check that accepts every 2xx status
CommandOk2xx(statusCode) == Is2xx(statusCode)

\* The check of the response status in sendCommand
CommandOk(statusCode) == statusCode = HttpOk

\* sendCommand throwing the response body instead of the fixed message
CommandResultWithBody(command, statusCode, body) ==
    IF statusCode # HttpOk
    THEN Throw(body)
    ELSE Value("string", command \o " command was successful!")

\* What sendCommand returns or throws once apiRequest resolved
CommandResult(command, statusCode, body) ==
    IF ~CommandOk(statusCode)
    THEN Throw("Command failed")
    ELSE Value("string", command \o " command was successful!")

\* sendCommand(vehicleId, command) up to the await of apiRequest
sendCommand(name, vehicleId, command) ==
    /\ Usable
    /\ pc = "idle"
    /\ op' = [name |-> name, vehicleId |-> vehicleId, command |-> command,
              opts |-> NoOpts]
    /\ tok' = accessToken
    /\ gets' = <<>>
    /\ arrival' = <<>>
    /\ IF NotLoggedIn(accessToken)
       THEN /\ result' = Throw("Not logged in")
            /\ posts' = <<>>
            /\ pc' = "done"
       ELSE /\ result' = Pending
            /\ posts' = <<ApiRequest(vehicleId, command, accessToken)>>
            /\ pc' = "post"
    /\ UNCHANGED <<config, accessToken, account>>
    /\ UNCHANGED loginVars

\* start, stop, lock, unlock, trunk, aux1, aux2
Wrapper(name, vehicleId) ==
    /\ name \in Wrappers
    /\ sendCommand(name, vehicleId, Keyword(name))

\* location(vehicleId)
Location(vehicleId) == sendCommand("location", vehicleId, Keyword("location"))

\* sendCommand called directly with a keyword the vendor does not know
RawCommand(vehicleId) == sendCommand("sendCommand", vehicleId, "invalid_command")

\* sendCommand dropping the session token when the command fails
CommandRespondsClearsToken(statusCode, body) ==
    /\ pc = "post"
    /\ posts' = [posts EXCEPT ![1].statusCode = statusCode, ![1].result = body]
    /\ result' = CommandResult(op.command, statusCode, body)
    /\ pc' = "done"
    /\ accessToken' = IF CommandOk(statusCode) THEN accessToken ELSE Null
    /\ UNCHANGED <<config, account, op, tok, gets, arrival>>
    /\ UNCHANGED loginVars

\* The command endpoint answers: apiRequest resolves, sendCommand resumes.
CommandResponds(statusCode, body) ==
    /\ pc = "post"
    /\ posts' = [posts EXCEPT ![1].statusCode = statusCode, ![1].result = body]
    /\ result' = CommandResult(op.command, statusCode, body)
    /\ pc' = "done"
    /\ UNCHANGED <<config, accessToken, account, op, tok, gets, arrival>>
    /\ UNCHANGED loginVars

\* got rejects (no response): apiRequest wraps the error, sendCommand rethrows it.
CommandTransportFails ==
    /\ pc = "post"
    /\ result' = Throw("API request failed: " \o "Network error")
    /\ pc' = "done"
    /\ UNCHANGED <<config, accessToken, account, op, tok, gets, arrival, posts>>
    /\ UNCHANGED loginVars

-----------------------------------------------------------------------------
(* Vehicle lister *)

\* The option values vehicles() accepts at run time: every field is optional.
Limits == 1..MaxLimit
Offsets == 0..MaxOffset
VehicleOptions ==
    {NoOpts}
    \cup { [all |-> a] : a \in BOOLEAN }
    \cup { [limit |-> l] : l \in Limits }
    \cup { [offset |-> o] : o \in Offsets }
    \cup { [all |-> a, limit |-> l] : a \in BOOLEAN, l \in Limits }
    \cup { [all |-> a, offset |-> o] : a \in BOOLEAN, o \in Offsets }
    \cup { [limit |-> l, offset |-> o] : l \in Limits, o \in Offsets }
    \cup { [all |-> a, limit |-> l, offset |-> o] :
             a \in BOOLEAN, l \in Limits, o \in Offsets }

Given(opts, field) == field \in DOMAIN opts

\* const { all = true, limit = 100, offset = 0 } = opts ?? {}
Defaults(opts) ==
    [all    |-> IF Given(opts, "all") THEN opts.all ELSE TRUE,
     limit  |-> IF Given(opts, "limit") THEN opts.limit ELSE DefaultLimit,
     offset |-> IF Given(opts, "offset") THEN opts.offset ELSE DefaultOffset]

Min(a, b) == IF a < b THEN a ELSE b

\* Math.ceil(a / b) for a >= 0, b >= 1
Ceil(a, b) == (a + b - 1) \div b

\* The list endpoint's body for ?limit=&offset=: the total and the slice
Page(limit, offset) ==
    [count   |-> Len(account),
     results |-> SubSeq(account, offset + 1, Min(offset + limit, Len(account)))]

\* sendReq(limit, offset): the GET issued; accessToken is the const of the closure
SendReq(limit, offset, token) ==
    [limit |-> limit, offset |-> offset,
     authorization |-> "Bearer " \o token, statusCode |-> InFlight]

\* A check that fails on the 5xx statuses only
ListFailed5xx(statusCode) == statusCode >= 500

\* sendReq's check of the response status
ListFailed(statusCode) == statusCode # HttpOk

ListError(statusCode) == Throw("Failed to get vehicles: " \o ToString(statusCode))

\* Math.floor in the place of Math.ceil(...) - 1
NumOfRequestsFloor(count, limit) == count \div limit

\* Math.ceil(response.count / limit) - 1
NumOfRequests(count, limit) == Ceil(count, limit) - 1

\* The additional requests reading the session's token when they are issued
MoreRequestsSessionToken(count, limit, token) ==
    [i \in 1..NumOfRequests(count, limit) |-> SendReq(limit, i * limit, accessToken)]

\* Array.from({ length: numOfRequests }, (_, i) => sendReq(limit, (i + 1) * limit))
MoreRequests(count, limit, token) ==
    [i \in 1..NumOfRequests(count, limit) |-> SendReq(limit, i * limit, token)]

RECURSIVE Flatten(_)
Flatten(lists) ==
    IF lists = <<>> THEN <<>> ELSE Head(lists) \o Flatten(Tail(lists))

\* The bodies of the additional requests in the order they were answered in
PromiseAllByArrival(reqs, arr) ==
    [i \in 1..(Len(reqs) - 1) |-> Page(reqs[arr[i + 1]].limit, reqs[arr[i + 1]].offset)]

\* await Promise.all(requests): the bodies of the additional requests, in the
\* order of the requests array, whatever the order arr they were answered in
PromiseAll(reqs, arr) ==
    [i \in 1..(Len(reqs) - 1) |-> Page(reqs[i + 1].limit, reqs[i + 1].offset)]

\* vehicles.push(...response.results), then results.forEach(push)
Merge(reqs, arr) ==
    Page(reqs[1].limit, reqs[1].offset).results
    \o Flatten([i \in 1..(Len(reqs) - 1) |-> PromiseAll(reqs, arr)[i].results])

\* find returning the last match
FindLast(list, vehicleId) ==
    LET hits == { i \in 1..Len(list) : list[i].device_key = vehicleId } IN
    IF hits = {}
    THEN Value("undefined", Null)
    ELSE Value("record", list[CHOOSE i \in hits : \A j \in hits : i >= j])

\* vehicles.find((item) => item.device_key === vehicleId)
Find(list, vehicleId) ==
    LET hits == { i \in 1..Len(list) : list[i].device_key = vehicleId } IN
    IF hits = {}
    THEN Value("undefined", Null)
    ELSE Value("record", list[CHOOSE i \in hits : \A j \in hits : i <= j])

\* What the call returns once vehicles() resolved
Return(list) ==
    IF op.name = "status" THEN Find(list, op.vehicleId) ELSE Value("list", list)

\* The calls the model follows: at most MaxPages page requests
Bounded(opts) ==
    Defaults(opts).all => Ceil(Len(account), Defaults(opts).limit) <= MaxPages

\* vehicles(opts) up to the await of the first sendReq
vehicles(name, vehicleId, opts) ==
    /\ Usable
    /\ pc = "idle"
    /\ Bounded(opts)
    /\ op' = [name |-> name, vehicleId |-> vehicleId, command |-> Null,
              opts |-> opts]
    /\ tok' = accessToken
    /\ posts' = <<>>
    /\ arrival' = <<>>
    /\ IF NotLoggedIn(accessToken)
       THEN /\ result' = Throw("Not logged in")
            /\ gets' = <<>>
            /\ pc' = "done"
       ELSE /\ result' = Pending
            /\ gets' = <<SendReq(Defaults(opts).limit, Defaults(opts).offset,
                                 accessToken)>>
            /\ pc' = "first"
    /\ UNCHANGED <<config, accessToken, account>>
    /\ UNCHANGED loginVars

Vehicles(opts) == vehicles("vehicles", Null, opts)

\* status(vehicleId): await this.vehicles({ all: true })
Status(vehicleId) == vehicles("status", vehicleId, [all |-> TRUE])

\* The first page is answered: vehicles() resumes after its first await.
FirstPageResponds(statusCode) ==
    /\ pc = "first"
    /\ arrival' = <<1>>
    /\ LET o == Defaults(op.opts)
           response == Page(o.limit, o.offset)
           answered == [gets EXCEPT ![1].statusCode = statusCode]
       IN  IF ListFailed(statusCode)
           THEN /\ gets' = answered
                /\ result' = ListError(statusCode)
                /\ pc' = "done"
           ELSE IF o.all /\ response.count > o.limit
                THEN /\ gets' = answered \o MoreRequests(response.count, o.limit, tok)
                     /\ result' = Pending
                     /\ pc' = "fanout"
                ELSE /\ gets' = answered
                     /\ result' = Return(Merge(answered, <<1>>))
                     /\ pc' = "done"
    /\ UNCHANGED <<config, accessToken, account, op, tok, posts>>
    /\ UNCHANGED loginVars

\* An additional page is answered. Promise.all rejects with the first page
\* that fails and resolves when the last one succeeded; the requests still in
\* flight after a rejection are not cancelled and are answered later.
PageResponds(i, statusCode) ==
    /\ pc \in {"fanout", "done"}
    /\ i \in 2..Len(gets)
    /\ gets[i].statusCode = InFlight
    /\ LET answered == [gets EXCEPT ![i].statusCode = statusCode]
           order == Append(arrival, i)
       IN  /\ gets' = answered
           /\ arrival' = order
           /\ IF pc = "done"
              THEN UNCHANGED <<pc, result>>
              ELSE IF ListFailed(statusCode)
                   THEN /\ result' = ListError(statusCode)
                        /\ pc' = "done"
                   ELSE IF \A j \in 1..Len(answered) : answered[j].statusCode # InFlight
                        THEN /\ result' = Return(Merge(answered, order))
                             /\ pc' = "done"
                        ELSE UNCHANGED <<pc, result>>
    /\ UNCHANGED <<config, accessToken, account, op, tok, posts>>
    /\ UNCHANGED loginVars

\* The caller has the call's outcome; nothing of the call is kept by the client.
Returned ==
    /\ pc = "done"
    /\ pc' = "idle"
    /\ op' = NoOp
    /\ tok' = Null
    /\ gets' = <<>>
    /\ arrival' = <<>>
    /\ posts' = <<>>
    /\ result' = Pending
    /\ UNCHANGED <<config, accessToken, account>>
    /\ UNCHANGED loginVars

-----------------------------------------------------------------------------

Init ==
    /\ config \in Credentials
    /\ accessToken = Null
    /\ account \in Accounts
    /\ createPc = "none"
    /\ createError = Null
    /\ loginPc = "idle"
    /\ exchange = [kind |-> "none"]
    /\ pc = "idle"
    /\ op = NoOp
    /\ tok = Null
    /\ gets = <<>>
    /\ arrival = <<>>
    /\ posts = <<>>
    /\ result = Pending

Next ==
    \/ \E cfg \in Credentials : Create(cfg)
    \/ Login
    \/ \E answer \in ProviderAnswers(config) : LoginResumes(answer)
    \/ \E name \in Wrappers, v \in DeviceKeys : Wrapper(name, v)
    \/ \E v \in DeviceKeys : Location(v)
    \/ \E v \in DeviceKeys : RawCommand(v)
    \/ \E s \in Statuses, b \in CommandBodies : CommandResponds(s, b)
    \/ CommandTransportFails
    \/ \E opts \in VehicleOptions : Vehicles(opts)
    \/ \E v \in DeviceKeys : Status(v)
    \/ \E s \in Statuses : FirstPageResponds(s)
    \/ \E i \in 2..Len(gets), s \in Statuses : PageResponds(i, s)
    \/ Returned

Spec == Init /\ [][Next]_vars

-----------------------------------------------------------------------------
(* Properties *)

HasPrefix(s, p) == Len(s) >= Len(p) /\ SubSeq(s, 1, Len(p)) = p

Answered(req) == req.statusCode # InFlight

\* C1: every authenticated operation (vehicles, status, sendCommand, the
\* wrappers, location) invoked while the session token is null fails with
\* 'Not logged in', and no list GET or command POST is issued.
C1_NotLoggedInNoRequest ==
    (op.name # "none" /\ tok = Null) =>
        /\ pc = "done"
        /\ result.kind = "error"
        /\ result.value = "Not logged in"
        /\ gets = <<>>
        /\ posts = <<>>

C1_Witness ==
    /\ op.name = "status"
    /\ tok = Null
    /\ pc = "done"
    /\ result.kind = "error"
    /\ gets = <<>>

\* C2: create() returns a client only after a credential exchange that gave a
\* token, and a client it returned holds a non-null token; when the identity
\* provider rejects or its response lacks the token, create() fails with an
\* 'Authentication failed' error and returns no client.
C2_CreateStep ==
    createPc = "login" =>
        IF exchange'.kind = "resolve" /\ exchange'.IdToken \in Tokens
        THEN /\ createPc' = "returned"
             /\ accessToken' = exchange'.IdToken
        ELSE /\ createPc' = "failed"
             /\ HasPrefix(createError', "Authentication failed")
             /\ accessToken' = Null

C2_CreateHoldsToken ==
    /\ [](createPc = "returned" => ~Falsy(accessToken))
    /\ [](createPc = "login" => loginPc = "exchange")
    /\ [][C2_CreateStep]_vars

C2_Witness ==
    /\ createPc = "returned"
    /\ exchange.kind = "resolve"
    /\ accessToken \in Tokens

\* The wrappers with the keyword and the return value the claim gives each
C3_Table ==
    { <<"start",  "remote_start", "remote_start command was successful!">>,
      <<"stop",   "remote_stop",  "remote_stop command was successful!">>,
      <<"lock",   "arm",          "arm command was successful!">>,
      <<"unlock", "disarm",       "disarm command was successful!">>,
      <<"trunk",  "trunk",        "trunk command was successful!">>,
      <<"aux1",   "remote_aux1",  "remote_aux1 command was successful!">>,
      <<"aux2",   "remote_aux2",  "remote_aux2 command was successful!">> }

\* C3: each control wrapper sends exactly one command POST whose body pairs
\* the given vehicleId as deviceKey with the wrapper's fixed keyword, and when
\* the POST is answered with 200 it returns '<keyword> command was successful!'.
C3_WrapperKeyword ==
    \A row \in C3_Table :
        (op.name = row[1] /\ ~Falsy(tok)) =>
            /\ pc \in {"post", "done"}
            /\ Len(posts) = 1
            /\ gets = <<>>
            /\ posts[1].deviceKey = op.vehicleId
            /\ posts[1].command = row[2]
            /\ (pc = "done" /\ posts[1].statusCode = 200) =>
                   (result.kind = "string" /\ result.value = row[3])

C3_Witness ==
    /\ op.name = "lock"
    /\ pc = "done"
    /\ Len(posts) = 1
    /\ posts[1].statusCode = 200
    /\ posts[1].command = "arm"
    /\ result.kind = "string"

\* C4: for every non-2xx status of the command endpoint sendCommand fails with
\* exactly 'Command failed', whatever the status, with the one POST it sent
\* (no retry) and without the response body in what the caller gets.
C4_CommandFailed ==
    (pc = "done" /\ posts # <<>> /\ Answered(posts[1])
        /\ ~Is2xx(posts[1].statusCode)) =>
        /\ Len(posts) = 1
        /\ result.kind = "error"
        /\ result.value = "Command failed"
        /\ result.value # posts[1].result

C4_Witness ==
    /\ pc = "done"
    /\ op.name = "start"
    /\ Len(posts) = 1
    /\ posts[1].statusCode = 500
    /\ result.kind = "error"

\* C5 as stated: every 2xx status of the command endpoint makes sendCommand
\* return '<command> command was successful!', and only non-2xx statuses lead
\* to 'Command failed'.
C5_Every2xxSucceeds ==
    (pc = "done" /\ posts # <<>> /\ Answered(posts[1])) =>
        /\ Is2xx(posts[1].statusCode) =>
              /\ result.kind = "string"
              /\ result.value = op.command \o " command was successful!"
        /\ (result.kind = "error" /\ result.value = "Command failed") =>
              ~Is2xx(posts[1].statusCode)

\* C5 amended: sendCommand returns '<command> command was successful!' exactly
\* when the command endpoint answers with status 200; every other status,
\* the 2xx statuses other than 200 included, leads to 'Command failed'.
C5_Only200Succeeds ==
    (pc = "done" /\ posts # <<>> /\ Answered(posts[1])) =>
        IF posts[1].statusCode = 200
        THEN /\ result.kind = "string"
             /\ result.value = op.command \o " command was successful!"
        ELSE /\ result.kind = "error"
             /\ result.value = "Command failed"

C5_Witness ==
    /\ pc = "done"
    /\ posts # <<>>
    /\ posts[1].statusCode = 204
    /\ result.kind = "error"
    /\ result.value = "Command failed"

AllOk == \A i \in 1..Len(gets) : gets[i].statusCode = 200

\* The slice of the account a request was answered with
Slice(req) == Page(req.limit, req.offset).results

\* C6: vehicles() with all true (and the offset 0 of that option shape), when
\* the count the first page reports exceeds limit and every page request
\* succeeds, issues ceil(count/limit) page requests and returns as many
\* records as the count.
C6_PageRequests ==
    LET o == Defaults(op.opts)
        count == Len(account)
    IN  (op.name = "vehicles" /\ pc = "done" /\ gets # <<>> /\ AllOk
            /\ o.all /\ o.offset = 0 /\ count > o.limit) =>
            /\ (Len(gets) - 1) * o.limit < count
            /\ count <= Len(gets) * o.limit
            /\ result.kind = "list"
            /\ Len(result.value) = count

C6_Witness ==
    /\ op.name = "vehicles"
    /\ pc = "done"
    /\ AllOk
    /\ Len(gets) = 3
    /\ Defaults(op.opts).offset = 0
    /\ result.kind = "list"
    /\ Len(result.value) = Len(account)

\* The message the claim expects for a status
C7_Message(statusCode) ==
    CASE statusCode = 204 -> "Failed to get vehicles: 204"
      [] statusCode = 404 -> "Failed to get vehicles: 404"
      [] statusCode = 500 -> "Failed to get vehicles: 500"

\* The page requests answered with a status other than 200, in arrival order
C7_Rejections == SelectSeq(arrival, LAMBDA i : gets[i].statusCode # 200)

C8_StatusFirstMatch ==
    (op.name = "status" /\ ~Falsy(tok)) =>
        /\ gets # <<>>
        /\ gets[1].limit = 100
        /\ gets[1].offset = 0
        /\ (pc = "done" /\ AllOk) =>
              LET hits == { i \in 1..Len(account) :
                              account[i].device_key = op.vehicleId }
              IN  /\ Len(gets) * 100 >= Len(account)
                  /\ IF hits = {}
                     THEN result.kind = "undefined"
                     ELSE /\ result.kind = "record"
                          /\ result.value.device_key = op.vehicleId
                          /\ result.value.vid \in hits
                          /\ \A j \in hits : result.value.vid <= j

C8_Witness ==
    /\ op.name = "status"
    /\ op.vehicleId = "B"
    /\ pc = "done"
    /\ Len(gets) = 3
    /\ AllOk
    /\ result.kind = "record"
    /\ result.value.vid = 101

\* C9: location(vehicleId) sends the keyword 'location' and, when the command
\* endpoint answers with 200, returns the data the endpoint answered with.
C9_LocationReturnsData ==
    (op.name = "location" /\ pc = "done" /\ posts # <<>>
        /\ posts[1].statusCode = 200) =>
        /\ posts[1].command = "location"
        /\ result.value = posts[1].result

\* C10 as stated: with two additional pages answered in the opposite order of
\* their offsets, the records of the later-offset page precede those of the
\* earlier-offset page in the list returned.
C10_CompletionOrder ==
    (pc = "done" /\ result.kind = "list" /\ Len(gets) = 3
        /\ arrival = <<1, 3, 2>>) =>
        result.value = Slice(gets[1]) \o Slice(gets[3]) \o Slice(gets[2])

\* C10 amended: the records of the first page come first and the records of
\* the additional pages follow in the order of their offsets (the order the
\* requests were issued in), whatever order the responses arrived in.
C10_OffsetOrder ==
    (pc = "done" /\ result.kind = "list") =>
        /\ result.value = Flatten([i \in 1..Len(gets) |-> Slice(gets[i])])
        /\ \A i \in 2..Len(gets) : gets[i].offset = (i - 1) * gets[i].limit

C10_Witness ==
    /\ pc = "done"
    /\ result.kind = "list"
    /\ Len(gets) = 3
    /\ arrival = <<1, 3, 2>>
    /\ result.value = Slice(gets[1]) \o Slice(gets[2]) \o Slice(gets[3])

\* A step that builds a new instance (create), whose token starts as null
NewInstance == createPc # "login" /\ createPc' = "login"

\* A step in which login() resumes after the credential exchange
LoginReturns == loginPc = "exchange" /\ loginPc' = "idle"

\* The exchange gave a token
GotToken(answer) == answer.kind = "resolve" /\ ~Falsy(answer.IdToken)

\* C11: on one instance the token is changed only by login() storing the token
\* of a successful exchange; every step of vehicles, status, sendCommand, the
\* wrappers and location leaves it unchanged, whether the call succeeds or fails.
C11_TokenStep ==
    ~NewInstance =>
        /\ (accessToken' # accessToken) =>
              (LoginReturns /\ GotToken(exchange') /\ accessToken' = exchange'.IdToken)
        /\ (pc' # pc \/ gets' # gets \/ posts' # posts) => accessToken' = accessToken

\* C11, its consequence: when no login is in flight and the last exchange gave
\* a token, that token is the one held, whatever calls ran since; a token held
\* is always one a login stored.
C11_OnlyLoginChangesToken ==
    /\ [][C11_TokenStep]_vars
    /\ []((loginPc = "idle" /\ GotToken(exchange)) =>
              accessToken = exchange.IdToken)
    /\ [](accessToken \in Tokens \cup {Null})

C11_Witness ==
    /\ pc = "done"
    /\ op.name = "unlock"
    /\ result.kind = "error"
    /\ result.value = "Command failed"
    /\ loginPc = "idle"
    /\ GotToken(exchange)
    /\ accessToken = exchange.IdToken
    /\ tok = accessToken

\* A step in which an API call starts
CallStarts == pc = "idle" /\ pc' # "idle"

\* C12: a re-login on a client that holds a token keeps that token while the
\* credential exchange is in flight (it is never reset to null), replaces it
\* only when the exchange returns a token, and still holds it after a failed
\* exchange; a call started during or after a failed re-login passes the
\* authentication check and issues its request.
C12_ReloginStep ==
    (~NewInstance /\ ~Falsy(accessToken)) =>
        /\ ~Falsy(accessToken')
        /\ loginPc' = "exchange" => accessToken' = accessToken
        /\ (LoginReturns /\ ~GotToken(exchange')) => accessToken' = accessToken
        /\ (LoginReturns /\ GotToken(exchange')) => accessToken' = exchange'.IdToken
        /\ CallStarts => (pc' \in {"first", "post"} /\ tok' = accessToken)

C12_ReloginKeepsToken == [][C12_ReloginStep]_vars

\* After create() a re-login failed; the token is still held and a call
\* started afterwards has issued its request with it.
C12_Witness ==
    /\ createPc = "returned"
    /\ loginPc = "idle"
    /\ exchange.kind = "reject"
    /\ accessToken = "t1"
    /\ pc = "post"
    /\ tok = "t1"
    /\ posts[1].xDroneApi = "t1"

\* C13: every page request of one vehicles() call carries the token the
\* session held when the call started, also when a login() stored another
\* token between the first request and the additional ones.
C13_OneTokenPerCall ==
    /\ \A i \in 1..Len(gets) : gets[i].authorization = "Bearer " \o tok
    /\ \A i, j \in 1..Len(gets) : gets[i].authorization = gets[j].authorization
    /\ [][(pc = "first" /\ pc' = "fanout") =>
             \A i \in 1..Len(gets') : gets'[i].authorization = gets[1].authorization]_vars

\* The additional requests were issued after a login stored another token.
C13_Witness ==
    /\ op.name = "vehicles"
    /\ pc = "fanout"
    /\ Len(gets) = 3
    /\ tok = "t1"
    /\ accessToken = "t2"
    /\ gets[3].authorization = "Bearer t1"

\* The records (by position in the account) a request asks for
C14_Asked(req) == (req.offset + 1)..(req.offset + req.limit)

\* C14 as stated: in one vehicles() call that fetches all pages no two page
\* requests use the same offset, and the requests ask for every record from
\* the caller's offset up to the count, whatever options were passed.
C14_DistinctOffsetsCoverAll ==
    LET o == Defaults(op.opts) IN
    (op.name \in {"vehicles", "status"} /\ pc = "done" /\ gets # <<>>
        /\ AllOk /\ o.all) =>
        /\ \A i, j \in 1..Len(gets) : gets[i].offset = gets[j].offset => i = j
        /\ \A k \in (o.offset + 1)..Len(account) :
              \E i \in 1..Len(gets) : k \in C14_Asked(gets[i])

====
